---- MODULE Spec2Model ----
(***************************************************************************)
(* Model of the dual-model inference engine of the oral cancer detection   *)
(* service (ml_models/inference.py) and of the detection view that calls   *)
(* it and persists its output (apps/detection/views.py).                   *)
(*                                                                         *)
(* Spec         the detection requests: each runs predict_with_both_models *)
(*              step by step (construct + load, then predict, per model),  *)
(*              interleaved with the other requests and with changes of    *)
(*              the image file, and then saves the predictions.            *)
(* SpecPredict  the classification arithmetic of OralCancerModel.predict   *)
(*              applied to every pair of logits of a bounded range.        *)
(* SpecReports  users, their images, detection results and reports: the    *)
(*              results and generate views with their ownership lookups,   *)
(*              generate requests running concurrently.                    *)
(* SpecModel    one OralCancerModel object used directly: its constructor  *)
(*              over every state of the checkpoint files, its mode, and    *)
(*              one predict with the clock ticking.                        *)
(***************************************************************************)
EXTENDS Integers, Sequences, FiniteSets, TLC

\* ------------------------------------------------------------------ bounds

\* Number of detection requests (calls of predict_with_both_models).
MaxCalls == 2

\* Logits of SpecPredict range over -MaxLogit..MaxLogit.
MaxLogit == 5

\* Durations in SpecModel (of a load, a decode, a forward pass) range over
\* 0..MaxTicks clock ticks.
MaxTicks == 2

\* Users of SpecReports.
MaxUsers == 2

\* Images that SpecReports lets be uploaded.
MaxImages == 1

\* Request processes of SpecReports that call the generate view.
MaxGens == 2

\* --------------------------------------------------------------- constants

\* A mutant of Variants: the two try blocks in the other order.
VariantsReversed == <<"vgg16", "regnet">>

\* The order in which predict_with_both_models runs the two models.
Variants == <<"regnet", "vgg16">>

VariantSet == {Variants[i] : i \in 1..Len(Variants)}

Reqs == 1..MaxCalls

\* Python's None: the entry predict_with_both_models stores for a failed model
\* (a record, so that it compares with the dict of a prediction).
None == [none |-> TRUE]

\* What the file at image_path may hold: a decodable image or other bytes.
Valid == {"imgA", "imgB"}

Corrupt == "corrupt"

Contents == Valid \cup {Corrupt}

\* A parameter mapping (state dict): the architecture its names and tensor
\* shapes fit, and its values.
Params == [arch : VariantSet, w : {"W1", "W2"}]

\* An object that is no parameter mapping of any architecture.
NotParams == [arch |-> "none", w |-> "none"]

\* What torch.load finds at a checkpoint path: whether the file exists,
\* whether the object in it is a dict, whether that dict has the key
\* 'model_state_dict', the value under that key, and the object itself seen
\* as a state dict.
Missing == [exists |-> FALSE, isDict |-> FALSE, hasKey |-> FALSE,
            inner |-> NotParams, top |-> NotParams]

\* torch.save(model.state_dict(), path)
Raw(p) == [exists |-> TRUE, isDict |-> TRUE, hasKey |-> FALSE,
           inner |-> NotParams, top |-> p]

\* torch.save({'model_state_dict': model.state_dict(), 'epoch': ...}, path)
Wrapped(p) == [exists |-> TRUE, isDict |-> TRUE, hasKey |-> TRUE,
               inner |-> p, top |-> NotParams]

\* A file holding something that is no dict at all.
NotDict == [exists |-> TRUE, isDict |-> FALSE, hasKey |-> FALSE,
            inner |-> NotParams, top |-> NotParams]

\* The trained checkpoint of a model type, as the training run saved it.
Intact(model_type) == Raw([arch |-> model_type, w |-> "W1"])

CkptStates ==
    {Missing, NotDict}
        \cup {Raw(p) : p \in Params \cup {NotParams}}
        \cup {Wrapped(p) : p \in Params \cup {NotParams}}

Logits == (0 - MaxLogit)..MaxLogit

\* ------------------------------------------------------- OralCancerModel

\* A 2-class output row: class index -> value.
Pair(a, b) == [i \in 0..1 |-> IF i = 0 THEN a ELSE b]

Max(a, b) == IF a >= b THEN a ELSE b

\* exp(-d) for d >= 0, in thousandths (fixed point, truncating).
RECURSIVE ExpNeg(_)
ExpNeg(d) == IF d = 0 THEN 1000 ELSE (ExpNeg(d - 1) * 368) \div 1000

\* F.softmax(output, dim=1): exp(x - max) / sum, the probabilities kept as
\* fractions num/den over the common denominator.
Softmax(output) ==
    LET m == Max(output[0], output[1])
        e == [i \in 0..1 |-> ExpNeg(m - output[i])]
    IN  [i \in 0..1 |-> [num |-> e[i], den |-> e[0] + e[1]]]

\* A mutant of ArgMax: the index of the first minimal value.
ArgMin(probs) == IF probs[1].num < probs[0].num THEN 1 ELSE 0

\* A mutant of ArgMax: a tie goes to the last index.
ArgMaxLast(probs) == IF probs[1].num >= probs[0].num THEN 1 ELSE 0

\* torch.argmax(probs, dim=1): the index of the first maximal value.
ArgMax(probs) == IF probs[1].num > probs[0].num THEN 1 ELSE 0

\* A mutant of ClassName: the class indices swapped.
ClassNameSwapped(predicted_class) ==
    IF predicted_class = 0 THEN "Cancer" ELSE "Non-Cancer"

\* 'Cancer' if predicted_class == 1 else 'Non-Cancer'
ClassName(predicted_class) ==
    IF predicted_class = 1 THEN "Cancer" ELSE "Non-Cancer"

\* self.model_type.upper()
Upper(model_type) == IF model_type = "regnet" THEN "REGNET" ELSE "VGG16"

\* The dict OralCancerModel.predict returns for the network output `output`.
PredictResult(output, model_type) ==
    LET probs == Softmax(output)
        predicted_class == ArgMax(probs)
    IN  [prediction      |-> ClassName(predicted_class),
         confidence      |-> probs[predicted_class],
         raw_probability |-> probs[1],
         model           |-> Upper(model_type)]

\* self.model(image_tensor): the network is a fixed function of the loaded
\* weights and of the input tensor; the table stands for the trained weights.
Forward(model_type, tensor) ==
    CASE model_type = "regnet" /\ tensor = "imgA" -> Pair(0, 2)
      [] model_type = "regnet" /\ tensor = "imgB" -> Pair(2, 0)
      [] model_type = "vgg16"  /\ tensor = "imgA" -> Pair(1, 1)
      [] OTHER                                    -> Pair(1, 0)

\* A mutant of ReadInput: the input an earlier model of the call read is reused.
ReadInputShared(content, earlier) == IF earlier # "none" THEN earlier ELSE content

\* Image.open(image_path): every predict opens the file itself and gets what
\* it holds then (earlier: what an earlier predict of the same call read,
\* "none" if there was none).
ReadInput(content, earlier) == content

\* A mutant of Decode: undecodable bytes yield a default image.
DecodeLenient(content) == IF content = Corrupt THEN "imgA" ELSE content

\* Image.open(image_path).convert('RGB') and TRANSFORM: the tensor of the
\* image in the file, or "error" when the bytes are no image.
Decode(content) == IF content = Corrupt THEN "error" ELSE content

\* A mutant of Pipeline: vgg16 is given its own input size.
PipelinePerVariant(model_type) ==
    IF model_type = "vgg16" THEN <<"RGB", "Resize256", "ToTensor", "Normalize">>
    ELSE <<"RGB", "Resize224", "ToTensor", "Normalize">>

\* convert('RGB') and the module-level TRANSFORM, in their order: Resize to
\* 224x224, ToTensor (scaling to [0,1]), Normalize with the fixed mean and
\* std; one pipeline, whatever the model type of the object that applies it.
Pipeline(model_type) == <<"RGB", "Resize224", "ToTensor", "Normalize">>

\* No image tensor.
NoTensor == [image |-> "none", steps |-> <<>>]

\* TRANSFORM(Image.open(image_path).convert('RGB')): the image tensor, as
\* the decoded image and the steps it went through; nothing when the bytes
\* are no image.
Preprocess(model_type, content) ==
    IF Decode(content) = "error" THEN NoTensor
    ELSE [image |-> Decode(content), steps |-> Pipeline(model_type)]

\* A mutant of KnownType: no else branch, every model type taken for a known one.
KnownTypeAny(model_type) == TRUE

\* if self.model_type == 'regnet' ... elif self.model_type == 'vgg16' ...
\* else: raise ValueError
KnownType(model_type) == model_type \in {"regnet", "vgg16"}

\* A mutant of SelectStateDict: only the regnet branch unwraps.
SelectStateDictRegnetOnly(model_type, ck) ==
    IF model_type = "regnet" /\ ck.isDict /\ ck.hasKey THEN ck.inner ELSE ck.top

\* if isinstance(checkpoint, dict) and 'model_state_dict' in checkpoint:
\* checkpoint['model_state_dict'], else checkpoint itself (the same test in
\* the branch of either model type).
SelectStateDict(model_type, ck) ==
    IF ck.isDict /\ ck.hasKey THEN ck.inner ELSE ck.top

\* A mutant of LoadStateDict: strict=False and mismatches skipped.
LoadStateDictLenient(model_type, sd) == "ok"

\* self.model.load_state_dict(sd), strict: "ok", or the error raised when sd
\* is no parameter mapping or its names or shapes do not fit the
\* architecture built for model_type.
LoadStateDict(model_type, sd) ==
    IF sd \in Params /\ sd.arch = model_type THEN "ok" ELSE "RuntimeError"

\* load_model: "ok", or the exception it raises.
LoadModel(model_type, ck) ==
    IF ~KnownType(model_type) THEN "ValueError"
    ELSE IF ~ck.exists THEN "FileNotFoundError"
    ELSE LoadStateDict(model_type, SelectStateDict(model_type, ck))

\* The number of torch.load calls load_model makes.
TorchLoads(model_type) == IF KnownType(model_type) THEN 1 ELSE 0

\* The weights of the model after a load_model that ended "ok".
LoadedWeights(model_type, ck) == SelectStateDict(model_type, ck).w

\* The mode load_model leaves the model in: self.model.eval().
ModeAfterLoad == "eval"

\* A mutant of ModeAtForward: predict calls self.model.eval() first.
ModeAtForwardAsserted(mode) == "eval"

\* The mode of the model during self.model(image_tensor): predict calls
\* neither eval() nor train(), so it is the mode the model was in at the call.
ModeAtForward(mode) == mode

\* Whether the backbone has batch normalisation layers before the custom
\* classifier: timm's regnety_320 has, torchvision's vgg16 has none.
BackboneBatchNorm(model_type) == model_type = "regnet"

\* Whether the forward pass raises in the classifier: in training mode
\* nn.BatchNorm1d refuses the batch of one image that
\* TRANSFORM(image).unsqueeze(0) makes ("Expected more than 1 value per
\* channel when training").
ClassifierRaises(mode) == mode = "train"

\* A mutant of BuffersAfterForward: the running statistics move in any mode.
BuffersAfterForwardAlways(model_type, mode, bn) == bn + 1

\* The batch-norm running statistics after a forward pass (bn counts their
\* updates since the load): torch.no_grad() stops gradients, not the update
\* of running_mean / running_var, which a layer in training mode makes; the
\* backbone runs before the classifier that raises.
BuffersAfterForward(model_type, mode, bn) ==
    IF mode = "train" /\ BackboneBatchNorm(model_type) THEN bn + 1 ELSE bn

\* A mutant of TimerStart: the timer starts when the image tensor is ready.
TimerStartAfterDecode(tEnter, tDecoded) == tDecoded

\* start_time = time.time(), the first statement of predict: before the image
\* is opened and transformed (tEnter: the time predict is entered, tDecoded:
\* the time the image tensor is ready).
TimerStart(tEnter, tDecoded) == tEnter

\* The dict of predict with its 'processing_time'.
Timed(res, t) ==
    [prediction      |-> res.prediction,
     confidence      |-> res.confidence,
     raw_probability |-> res.raw_probability,
     processing_time |-> t,
     model           |-> res.model]

\* The key of a model type in the dict of get_model_info.
InfoKey(model_type) == IF model_type = "regnet" THEN "regnet_y320" ELSE model_type

\* REGNET_MODEL_PATH, VGG16_MODEL_PATH: the file names.
ModelPath(model_type) ==
    IF model_type = "regnet" THEN "regnet_y320_best.pth" ELSE "vgg16_best.pth"

\* path.stat().st_size / (1024 * 1024) of a file that exists; the table
\* stands for the sizes of the files.
SizeMb(ck) == IF ck.isDict /\ ck.hasKey THEN 2 ELSE 1

\* The entry of get_model_info for one model: 'path', 'exists', 'size_mb'
\* (0 when the file does not exist).
InfoEntry(model_type, ck) ==
    [path    |-> ModelPath(model_type),
     exists  |-> ck.exists,
     size_mb |-> IF ck.exists THEN SizeMb(ck) ELSE 0]

\* A mutant of ModelInfo: no 'device' entry, keys the model types.
ModelInfoVariantsOnly(c, device) ==
    [k \in {"regnet", "vgg16"} |-> InfoEntry(k, c[k])]

\* The dict get_model_info returns (c: the checkpoint files, device:
\* str(DEVICE)): the entries of the two models and a 'device' entry.
ModelInfo(c, device) ==
    [regnet_y320 |-> InfoEntry("regnet", c["regnet"]),
     vgg16       |-> InfoEntry("vgg16", c["vgg16"]),
     device      |-> device]

\* A mutant of ConstructorLoads: a model type loaded before is reused.
ConstructorLoadsCached(model_type, loadedBefore) == model_type \notin loadedBefore

\* OralCancerModel.__init__ calls load_model unconditionally, whatever was
\* loaded before (loadedBefore: the model types some constructor has loaded).
ConstructorLoads(model_type, loadedBefore) == TRUE

\* ------------------------------------------------ predict_with_both_models

\* d with key k set to x (results[k] = x).
Put(d, k, x) == [y \in (DOMAIN d) \cup {k} |-> IF y = k THEN x ELSE d[y]]

\* results = {}
EmptyDict == [y \in {} |-> None]

\* A mutant of FailureEntry: a failed model gets no entry.
FailureEntryDropped(res, model_type) == res

\* A mutant of FailureEntry: a failed model gets a tagged entry.
FailureEntryTagged(res, model_type) ==
    Put(res, model_type, [error |-> "failed", model |-> model_type])

\* except Exception: results[model_type] = None
FailureEntry(res, model_type) == Put(res, model_type, None)

\* A mutant of AfterFailure: the failed model is tried again.
AfterFailureRetry(i) == i

\* A mutant of AfterFailure: a failure ends the call.
AfterFailureAbort(i) == Len(Variants) + 1

\* The model that runs after the handler of model i: the next one.
AfterFailure(i) == i + 1

\* A mutant of ForwardWait: the wait for the forward pass is cut at a budget.
ForwardWaitBudget(fwd) == "finished"

\* output = self.model(image_tensor) is a plain synchronous call: the caller
\* waits until the forward pass ends (fwd "ok" or "error"), and for ever
\* when it never does (fwd "never").
ForwardWait(fwd) == IF fwd = "never" THEN "hung" ELSE "finished"

\* A mutant of Finish: with every entry None the call raises.
FinishRaising(res) ==
    IF \A k \in DOMAIN res : res[k] = None THEN "raised" ELSE "returned"

\* return results: the call ends by returning the mapping, whatever it holds.
Finish(res) == "returned"

\* --------------------------------------------------------- detection view

\* A mutant of RowsFor: a failed model is saved as a default prediction.
RowsForDefault(entry, r, model_type) ==
    IF entry = None
    THEN {[req |-> r, model_type |-> model_type, prediction |-> "Non-Cancer",
           confidence |-> [num |-> 0, den |-> 1]]}
    ELSE {[req |-> r, model_type |-> model_type,
           prediction |-> entry.prediction, confidence |-> entry.confidence]}

\* A mutant of RowsFor: update_or_create, one row per image and model.
RowsForUpsert(entry, r, model_type) ==
    IF entry = None
    THEN {}
    ELSE {[req |-> 1, model_type |-> model_type,
           prediction |-> entry.prediction, confidence |-> entry.confidence]}

\* if predictions.get(model_type): DetectionResult.objects.create(...)
RowsFor(entry, r, model_type) ==
    IF entry = None
    THEN {}
    ELSE {[req |-> r, model_type |-> model_type,
           prediction |-> entry.prediction, confidence |-> entry.confidence]}

\* A mutant of UploadStatus: a failed storage upload marks the image failed.
UploadStatusByStorage(storageOk) == IF storageOk THEN "processed" ELSE "failed"

\* upload: image.status = 'processed' after the storage upload and in the
\* handler of its exception alike.
UploadStatus(storageOk) == "processed"

\* A mutant of DetectionStatus: a call without any prediction counts as failed.
DetectionStatusStrict(raised, predictions) ==
    IF raised \/ \A k \in DOMAIN predictions : predictions[k] = None
    THEN "failed" ELSE "processed"

\* results, run_detection: image.status = 'processed' (and the success
\* message) at the end of the try block, whatever predictions holds;
\* 'failed' (and the error message) in the handler of an exception.
DetectionStatus(raised, predictions) == IF raised THEN "failed" ELSE "processed"

\* A mutant of GetObjectOr404: the user of the request is not looked at.
GetObjectOr404AnyUser(rows, id, user) == {row \in rows : row.id = id}

\* get_object_or_404(Model, id=id, user=request.user): the rows with that id
\* and that user (ids are keys: one row at most); none is answered with 404.
GetObjectOr404(rows, id, user) ==
    {row \in rows : row.id = id /\ row.user = user}

\* Report.objects.get(detection_result=..., user=...) inside get_or_create:
\* "DoesNotExist", "MultipleObjectsReturned", or "one".
GetReport(reports, dr, user) ==
    LET n == Cardinality({rep \in reports :
                              rep.detection_result = dr /\ rep.user = user})
    IN  IF n = 0 THEN "DoesNotExist"
        ELSE IF n = 1 THEN "one" ELSE "MultipleObjectsReturned"

\* ------------------------------------------------------------------ state

VARIABLES
    ckpt,       \* model type -> state of its checkpoint file
    imageFile,  \* content of the file at image_path ("absent" before upload)
    status,     \* Image.status ("absent" before upload)
    up,         \* the upload request: "idle", "created" (the Image row is
                \* written, the storage upload is going on), "done"
    pc,         \* request -> "idle", "load", "predict", "returned", "done",
                \* "hung" (waiting for a forward pass that never ends)
                \* ("raised": predict_with_both_models ended by an exception)
    cur,        \* request -> index in Variants of the model in progress
    results,    \* request -> the results dict of predict_with_both_models
    model,      \* request -> model type -> the model object held: the
                \* request whose constructor built it (0: none)
    exec,       \* request -> model type -> what ran for it in the call
    loadCount,  \* model type -> number of checkpoint loads performed
    rows,       \* the DetectionResult rows
    pOutput,    \* SpecPredict: the network output
    pType,      \* SpecPredict: the model type
    pResult,    \* SpecPredict: the dict predict returned, or None
    dType,      \* SpecModel: model_type of the object ("none": not built)
    dPc,        \* SpecModel: "new", "ready" (constructed), "raised" (the
                \* constructor raised), "done" (predict returned), "failed"
                \* (predict raised)
    dMode,      \* SpecModel: mode of self.model: "none", "eval", "train"
    dWeights,   \* SpecModel: the parameter values loaded ("none")
    dBuffers,   \* SpecModel: updates of the batch-norm running statistics
                \* since the load
    dErr,       \* SpecModel: the exception raised ("none")
    dRet,       \* SpecModel: the dict predict returned, or None
    dClock,     \* SpecModel: time.time(), in ticks
    dTrace,     \* SpecModel: what ran (see NoTrace)
    info,       \* SpecModel: the dict get_model_info returned, or None
    oImages,    \* SpecReports: image id -> Image.user (0: no such row)
    oResults,   \* SpecReports: the DetectionResult rows (id, image, user)
    oReports,   \* SpecReports: the Report rows (id, detection_result, user)
    gen,        \* SpecReports: process -> its generate request in progress
    resp        \* SpecReports: the last response (see NoResp)

vars == <<ckpt, imageFile, status, up, pc, cur, results, model, exec, loadCount,
          rows, pOutput, pType, pResult, dType, dPc, dMode, dWeights,
          dBuffers, dErr, dRet, dClock, dTrace, info, oImages, oResults,
          oReports, gen, resp>>

predictVars == <<pOutput, pType, pResult>>

modelVars == <<dType, dPc, dMode, dWeights, dBuffers, dErr, dRet, dClock,
               dTrace, info>>

\* Nothing has run on the object: torch.load calls, the mode at the entry of
\* predict, the mode during the forward pass, and the ticks the load, the
\* opening and transforming of the image, and the forward pass took, and the
\* image tensor made.
NoTrace == [reads |-> 0, entryMode |-> "none", fwdMode |-> "none",
            load |-> 0, decode |-> 0, forward |-> 0, tensor |-> NoTensor]

ownVars == <<oImages, oResults, oReports, gen, resp>>

Users == 1..MaxUsers

Images == 1..MaxImages

Gens == 1..MaxGens

\* A generate request that is not in progress.
NoGen == [pc |-> "idle", user |-> 0, dr |-> <<0, "none">>]

\* No response yet: the status of a response, whether the object the request
\* named existed, and whether it was the user's.
NoResp == [code |-> "none", exists |-> FALSE, owned |-> FALSE]

\* No image, detection result or report, no request in progress.
InitOwn ==
    /\ oImages = [i \in Images |-> 0]
    /\ oResults = {}
    /\ oReports = {}
    /\ gen = [g \in Gens |-> NoGen]
    /\ resp = NoResp

\* No OralCancerModel has been constructed outside predict_with_both_models.
InitModel ==
    /\ dType = "none"
    /\ dPc = "new"
    /\ dMode = "none"
    /\ dWeights = "none"
    /\ dBuffers = 0
    /\ dErr = "none"
    /\ dRet = None
    /\ dClock = 0
    /\ dTrace = NoTrace
    /\ info = None

\* Nothing has run for a model in a call.
NoExec == [loads |-> 0, decodes |-> 0, forwards |-> 0,
           tensor |-> "none", caught |-> "none"]

InitRequests ==
    /\ pc = [r \in Reqs |-> "idle"]
    /\ cur = [r \in Reqs |-> 1]
    /\ results = [r \in Reqs |-> EmptyDict]
    /\ model = [r \in Reqs |-> [v \in VariantSet |-> 0]]
    /\ exec = [r \in Reqs |-> [v \in VariantSet |-> NoExec]]
    /\ loadCount = [v \in VariantSet |-> 0]
    /\ rows = {}

Init ==
    /\ ckpt \in {c \in [VariantSet -> CkptStates] :
                    \A v \in VariantSet : c[v] \in {Intact(v), Missing}}
    /\ imageFile = "absent"
    /\ status = "absent"
    /\ up = "idle"
    /\ InitRequests
    /\ pOutput = Pair(0, 0)
    /\ pType = "regnet"
    /\ pResult = None
    /\ InitModel
    /\ InitOwn

\* predictions.get(k): the entry under k, None when there is none.
Get(d, k) == IF k \in DOMAIN d THEN d[k] ELSE None

\* The model types some constructor has loaded so far.
LoadedBefore == {w \in VariantSet : loadCount[w] > 0}

\* The position of a request whose results are now res and whose next model
\* is the j-th: the try block of that model, or the return after the last.
Advance(r, j, res) ==
    /\ cur' = [cur EXCEPT ![r] = j]
    /\ pc' = [pc EXCEPT ![r] = IF j > Len(Variants) THEN Finish(res) ELSE "load"]

\* upload, first write: Image.objects.create(..., file=uploaded_file,
\* status='pending'). The view checks the size of the file, not its bytes.
UploadCreate ==
    /\ up = "idle"
    /\ \E content \in Contents : imageFile' = content
    /\ status' = "pending"
    /\ up' = "created"
    /\ UNCHANGED <<ckpt, pc, cur, results, model, exec, loadCount, rows,
                   predictVars, modelVars, ownVars>>

\* upload, second write: image.status = 'processed'; image.save(), whether
\* the storage upload succeeded or raised, on the object the view created
\* (whatever the row holds by then).
UploadFinish ==
    /\ up = "created"
    /\ \E storageOk \in BOOLEAN : status' = UploadStatus(storageOk)
    /\ up' = "done"
    /\ UNCHANGED <<ckpt, imageFile, pc, cur, results, model, exec, loadCount,
                   rows, predictVars, modelVars, ownVars>>

\* Another process rewrites the file at image_path.
ModifyFile ==
    /\ imageFile \in Contents
    /\ \E content \in Contents \ {imageFile} : imageFile' = content
    /\ UNCHANGED <<ckpt, status, up, pc, cur, results, model, exec, loadCount,
                   rows, predictVars, modelVars, ownVars>>

\* results view, POST with run_detection, up to the call of
\* predict_with_both_models and its first statement, results = {}.
StartDetection(r) ==
    /\ pc[r] = "idle"
    /\ status # "absent"
    /\ \A q \in Reqs : q < r => pc[q] # "idle"
    /\ pc' = [pc EXCEPT ![r] = "load"]
    /\ cur' = [cur EXCEPT ![r] = 1]
    /\ results' = [results EXCEPT ![r] = EmptyDict]
    /\ UNCHANGED <<ckpt, imageFile, up, status, model, exec, loadCount, rows,
                   predictVars, modelVars, ownVars>>

\* OralCancerModel(model_type=...) inside the try block of the model in
\* progress: __init__ and load_model, and the except clause when it raises.
Construct(r) ==
    /\ pc[r] = "load"
    /\ LET v == Variants[cur[r]]
           loads == ConstructorLoads(v, LoadedBefore)
           outcome == IF loads THEN LoadModel(v, ckpt[v]) ELSE "ok"
           n == IF loads /\ outcome = "ok" THEN loadCount[v] + 1 ELSE loadCount[v]
           \* the object: built by this call, or (no load) one built earlier
           obj == IF loads \/ \A q \in Reqs : model[q][v] = 0 THEN r
                  ELSE model[CHOOSE q \in Reqs : model[q][v] # 0][v]
       IN  /\ loadCount' = [loadCount EXCEPT ![v] = n]
           /\ exec' = [exec EXCEPT ![r][v] =
                  [@ EXCEPT !.loads = IF loads THEN @ + 1 ELSE @,
                            !.caught = IF outcome = "ok" THEN @ ELSE "load"]]
           /\ IF outcome = "ok"
              THEN /\ model' = [model EXCEPT ![r][v] = obj]
                   /\ pc' = [pc EXCEPT ![r] = "predict"]
                   /\ UNCHANGED <<cur, results>>
              ELSE /\ results' = [results EXCEPT ![r] = FailureEntry(@, v)]
                   /\ Advance(r, AfterFailure(cur[r]), results'[r])
                   /\ UNCHANGED model
    /\ UNCHANGED <<ckpt, imageFile, up, status, rows, predictVars, modelVars, ownVars>>

\* model.predict(image_path) inside the try block of the model in progress,
\* the store of its result, and the except clause when it raises.
Predict(r) ==
    /\ pc[r] = "predict"
    /\ LET v == Variants[cur[r]]
           earlier == IF cur[r] > 1 THEN exec[r][Variants[cur[r] - 1]].tensor
                      ELSE "none"
           content == ReadInput(imageFile, earlier)
           tensor == Decode(content)
       IN  \E fwd \in {"ok", "error", "never"} :
             LET waited == IF tensor = "error" THEN "finished" ELSE ForwardWait(fwd)
                 caught == IF tensor = "error" THEN "decode"
                           ELSE IF waited = "hung" \/ fwd = "ok" THEN "none"
                           ELSE IF fwd = "never" THEN "timeout" ELSE "forward"
             IN  /\ exec' = [exec EXCEPT ![r][v] =
                        [@ EXCEPT !.decodes = @ + 1,
                                  !.tensor = content,
                                  !.forwards = IF tensor = "error" THEN @ ELSE @ + 1,
                                  !.caught = caught]]
                 /\ IF waited = "hung"
                    THEN /\ pc' = [pc EXCEPT ![r] = "hung"]
                         /\ UNCHANGED <<cur, results>>
                    ELSE IF caught = "none"
                    THEN /\ results' = [results EXCEPT ![r] =
                                Put(@, v, PredictResult(Forward(v, tensor), v))]
                         /\ Advance(r, cur[r] + 1, results'[r])
                    ELSE /\ results' = [results EXCEPT ![r] = FailureEntry(@, v)]
                         /\ Advance(r, AfterFailure(cur[r]), results'[r])
    /\ UNCHANGED <<ckpt, imageFile, up, status, model, loadCount, rows,
                   predictVars, modelVars, ownVars>>

\* results view after predict_with_both_models returned: one
\* DetectionResult per truthy entry, then image.status = 'processed'; a
\* create that raises (failAt) leads to the except clause, status 'failed'.
SaveResults(r) ==
    /\ pc[r] = "returned"
    /\ \E failAt \in 0..Len(Variants) :
         LET new(i) == RowsFor(Get(results[r], Variants[i]), r, Variants[i])
             raised == failAt > 0 /\ new(failAt) # {}
             upto == IF raised THEN failAt - 1 ELSE Len(Variants)
         IN  /\ rows' = rows \cup UNION {new(i) : i \in 1..upto}
             /\ status' = DetectionStatus(raised, results[r])
    /\ pc' = [pc EXCEPT ![r] = "done"]
    \* the view returns: the locals of the request are gone
    /\ cur' = [cur EXCEPT ![r] = 1]
    /\ results' = [results EXCEPT ![r] = EmptyDict]
    /\ model' = [model EXCEPT ![r] = [v \in VariantSet |-> 0]]
    /\ exec' = [exec EXCEPT ![r] = [v \in VariantSet |-> NoExec]]
    /\ UNCHANGED <<ckpt, imageFile, up, loadCount, predictVars, modelVars, ownVars>>

Next ==
    \/ UploadCreate
    \/ UploadFinish
    \/ ModifyFile
    \/ \E r \in Reqs : StartDetection(r)
    \/ \E r \in Reqs : Construct(r)
    \/ \E r \in Reqs : Predict(r)
    \/ \E r \in Reqs : SaveResults(r)

Spec == Init /\ [][Next]_vars

\* ------------------------------------------------------------ SpecPredict

InitPredict ==
    /\ ckpt = [v \in VariantSet |-> Intact(v)]
    /\ imageFile = "absent"
    /\ status = "absent"
    /\ up = "idle"
    /\ InitRequests
    /\ \E a \in Logits, b \in Logits : pOutput = Pair(a, b)
    /\ pType \in VariantSet
    /\ pResult = None
    /\ InitModel
    /\ InitOwn

\* The classification of OralCancerModel.predict on the output pOutput.
PredictOnce ==
    /\ pResult = None
    /\ pResult' = PredictResult(pOutput, pType)
    /\ UNCHANGED <<ckpt, imageFile, up, status, pc, cur, results, model, exec,
                   loadCount, rows, pOutput, pType, modelVars, ownVars>>

NextPredict == PredictOnce

SpecPredict == InitPredict /\ [][NextPredict]_vars

\* -------------------------------------------------------------- SpecModel

\* The model types a caller may pass to OralCancerModel(model_type=...).
ModelTypes == VariantSet \cup {"unknown"}

\* The file torch.load is given for model_type (none for another type).
CkptAt(model_type) ==
    IF model_type \in DOMAIN ckpt THEN ckpt[model_type] ELSE Missing

\* The checkpoint files hold anything, the image file any content.
InitDirect ==
    /\ ckpt \in [VariantSet -> CkptStates]
    /\ imageFile \in Contents
    /\ status = "processed"
    /\ up = "done"
    /\ InitRequests
    /\ pOutput = Pair(0, 0)
    /\ pType = "regnet"
    /\ pResult = None
    /\ InitModel
    /\ InitOwn

\* OralCancerModel(model_type): __init__ and load_model, which re-raises
\* what it logs; the caller gets an object only when nothing was raised.
DirectConstruct ==
    /\ dPc = "new"
    /\ \E model_type \in ModelTypes, tLoad \in 0..MaxTicks :
         LET outcome == LoadModel(model_type, CkptAt(model_type))
         IN  /\ dType' = model_type
             /\ dClock' = dClock + tLoad
             /\ dTrace' = [dTrace EXCEPT !.reads = TorchLoads(model_type),
                                         !.load = tLoad]
             /\ IF outcome = "ok"
                THEN /\ dPc' = "ready"
                     /\ dMode' = ModeAfterLoad
                     /\ dWeights' = LoadedWeights(model_type, CkptAt(model_type))
                     /\ UNCHANGED dErr
                ELSE /\ dPc' = "raised"
                     /\ dErr' = outcome
                     /\ UNCHANGED <<dMode, dWeights>>
    /\ UNCHANGED <<ckpt, imageFile, up, status, pc, cur, results, model, exec,
                   loadCount, rows, predictVars, dBuffers, dRet, info, ownVars>>

\* Another holder of the object calls model.model.train() or .eval()
\* between the load and the predict.
SwitchMode ==
    /\ dPc = "ready"
    /\ dMode' = IF dMode = "eval" THEN "train" ELSE "eval"
    /\ UNCHANGED <<ckpt, imageFile, up, status, pc, cur, results, model, exec,
                   loadCount, rows, predictVars, dType, dPc, dWeights,
                   dBuffers, dErr, dRet, dClock, dTrace, info, ownVars>>

\* model.predict(image_path) on the object: the timer, the image, the
\* forward pass in the mode the model is in, the dict; what is raised is
\* logged and re-raised.
DirectPredict ==
    /\ dPc = "ready"
    /\ \E tDecode \in 0..MaxTicks, tForward \in 0..MaxTicks,
          fwd \in {"ok", "error"} :
         LET image_tensor == Preprocess(dType, ReadInput(imageFile, "none"))
             tensor == image_tensor.image
             ran == image_tensor # NoTensor
             mode == ModeAtForward(dMode)
             tEnter == dClock
             tDecoded == tEnter + tDecode
             tEnd == IF ran THEN tDecoded + tForward ELSE tDecoded
             err == IF ~ran THEN "UnidentifiedImageError"
                    ELSE IF ClassifierRaises(mode) THEN "ValueError"
                    ELSE IF fwd = "error" THEN "RuntimeError"
                    ELSE "none"
         IN  /\ dMode' = mode
             /\ dBuffers' = IF ran THEN BuffersAfterForward(dType, mode, dBuffers)
                            ELSE dBuffers
             /\ dErr' = err
             /\ dPc' = IF err = "none" THEN "done" ELSE "failed"
             /\ dRet' = IF err = "none"
                        THEN Timed(PredictResult(Forward(dType, tensor), dType),
                                   tEnd - TimerStart(tEnter, tDecoded))
                        ELSE None
             /\ dClock' = tEnd
             /\ dTrace' = [dTrace EXCEPT !.entryMode = dMode,
                                         !.fwdMode = IF ran THEN mode ELSE "none",
                                         !.decode = tDecode,
                                         !.tensor = image_tensor,
                                         !.forward = IF ran THEN tForward ELSE 0]
    /\ UNCHANGED <<ckpt, imageFile, up, status, pc, cur, results, model, exec,
                   loadCount, rows, predictVars, dType, dWeights, info, ownVars>>

\* get_model_info(): the paths are looked at (exists, stat), nothing is
\* loaded; DEVICE is 'cuda' where there is one, 'cpu' otherwise.
GetModelInfo ==
    /\ info = None
    /\ \E device \in {"cpu", "cuda"} : info' = ModelInfo(ckpt, device)
    /\ UNCHANGED <<ckpt, imageFile, up, status, pc, cur, results, model, exec,
                   loadCount, rows, predictVars, dType, dPc, dMode, dWeights,
                   dBuffers, dErr, dRet, dClock, dTrace, ownVars>>

NextModel ==
    \/ DirectConstruct
    \/ SwitchMode
    \/ DirectPredict
    \/ GetModelInfo

SpecModel == InitDirect /\ [][NextModel]_vars

\* ------------------------------------------------------------ SpecReports

\* The Image rows, as rows with an id and a user.
ImageRows == {[id |-> i, user |-> oImages[i]] : i \in {j \in Images : oImages[j] # 0}}

\* The ids a request may name for a DetectionResult.
ResultIds == Images \X VariantSet

\* The checkpoints, the file and the inference requests play no part.
InitReports ==
    /\ ckpt = [v \in VariantSet |-> Intact(v)]
    /\ imageFile = "imgA"
    /\ status = "processed"
    /\ up = "done"
    /\ InitRequests
    /\ pOutput = Pair(0, 0)
    /\ pType = "regnet"
    /\ pResult = None
    /\ InitModel
    /\ InitOwn

\* upload by user u: Image.objects.create(user=request.user, ...); the
\* images get their ids in order.
OwnUpload(u) ==
    /\ \E i \in Images :
         /\ oImages[i] = 0
         /\ \A j \in Images : j < i => oImages[j] # 0
         /\ oImages' = [oImages EXCEPT ![i] = u]
    /\ resp' = [code |-> "ok", exists |-> TRUE, owned |-> TRUE]
    /\ UNCHANGED <<ckpt, imageFile, status, up, pc, cur, results, model, exec,
                   loadCount, rows, predictVars, modelVars, oResults,
                   oReports, gen>>

\* results, POST run_detection, by user u for image id i: 404 unless the
\* image is u's; then one DetectionResult(image=image, user=request.user)
\* per model in `created`, the models whose prediction was saved. An image is
\* run once here.
OwnResults(u, i) ==
    /\ LET found == GetObjectOr404(ImageRows, i, u)
           exists == oImages[i] # 0
           owned == oImages[i] = u
       IN  IF found = {}
           THEN /\ resp' = [code |-> "404", exists |-> exists, owned |-> owned]
                /\ UNCHANGED oResults
           ELSE /\ \A row \in oResults : row.image # i
                /\ \E created \in SUBSET VariantSet :
                     oResults' = oResults \cup
                         {[id |-> <<i, v>>, image |-> i, user |-> u] : v \in created}
                /\ resp' = [code |-> "ok", exists |-> exists, owned |-> owned]
    /\ UNCHANGED <<ckpt, imageFile, status, up, pc, cur, results, model, exec,
                   loadCount, rows, predictVars, modelVars, oImages,
                   oReports, gen>>

\* generate by user u for detection result id d, in process g, up to the
\* get inside Report.objects.get_or_create: 404 unless the detection result
\* is u's; a report found (the PDF is built and returned), several found
\* (MultipleObjectsReturned escapes the view), or none: the process goes on
\* to create one. A process creates one Report at most here.
GenerateGet(g, u, d) ==
    /\ gen[g].pc = "idle"
    /\ LET found == GetObjectOr404(oResults, d, u)
           exists == \E row \in oResults : row.id = d
           owned == \E row \in oResults : row.id = d /\ row.user = u
           got == GetReport(oReports, d, u)
       IN  IF found = {}
           THEN /\ resp' = [code |-> "404", exists |-> exists, owned |-> owned]
                /\ UNCHANGED gen
           ELSE IF got = "DoesNotExist"
           THEN /\ \A rep \in oReports : rep.id # g
                /\ gen' = [gen EXCEPT ![g] = [pc |-> "create", user |-> u, dr |-> d]]
                /\ UNCHANGED resp
           ELSE /\ resp' = [code |-> IF got = "one" THEN "found" ELSE got,
                            exists |-> exists, owned |-> owned]
                /\ UNCHANGED gen
    /\ UNCHANGED <<ckpt, imageFile, status, up, pc, cur, results, model, exec,
                   loadCount, rows, predictVars, modelVars, oImages, oResults,
                   oReports>>

\* generate, the create inside get_or_create and the rest of the view: no
\* unique constraint on (detection_result, user) makes the insert fail, so
\* the row is written whatever other processes have written since the get.
GenerateCreate(g) ==
    /\ gen[g].pc = "create"
    /\ oReports' = oReports \cup
           {[id |-> g, detection_result |-> gen[g].dr, user |-> gen[g].user]}
    /\ gen' = [gen EXCEPT ![g] = NoGen]
    /\ resp' = [code |-> "created", exists |-> TRUE, owned |-> TRUE]
    /\ UNCHANGED <<ckpt, imageFile, status, up, pc, cur, results, model, exec,
                   loadCount, rows, predictVars, modelVars, oImages, oResults>>

NextReports ==
    \/ \E u \in Users : OwnUpload(u)
    \/ \E u \in Users, i \in Images : OwnResults(u, i)
    \/ \E g \in Gens, u \in Users, d \in ResultIds : GenerateGet(g, u, d)
    \/ \E g \in Gens : GenerateCreate(g)

SpecReports == InitReports /\ [][NextReports]_vars

\* ------------------------------------------------------------------ claims

Returned(r) == pc[r] = "returned"

\* e is the dict of a prediction.
IsPrediction(e) ==
    /\ e # None
    /\ e.prediction \in {"Cancer", "Non-Cancer"}
    /\ e.confidence.den > 0

\* Every model of the call ended in a failure.
AllFailed(r) == \A v \in VariantSet : exec[r][v].caught # "none"

\* C1: the mapping predict_with_both_models returns has exactly one entry per
\* registered model type, whatever failed, each entry a prediction or the
\* failure marker None.
C1_EntryPerVariant ==
    \A r \in Reqs : Returned(r) =>
        /\ DOMAIN results[r] = VariantSet
        /\ Cardinality(DOMAIN results[r]) = Len(Variants)
        /\ \A v \in VariantSet :
               results[r][v] = None \/ IsPrediction(results[r][v])

\* A call returned after a load failure of one model and a forward failure
\* of the other.
C1_Witness ==
    \E r \in Reqs :
        /\ Returned(r)
        /\ exec[r]["regnet"].caught = "load"
        /\ exec[r]["vgg16"].caught = "forward"
        /\ DOMAIN results[r] = VariantSet

\* C2: a failure of one model is recorded as that model's entry and never
\* keeps the other models from running: in a returned call every model had
\* its load attempted, every model whose load succeeded had its predict run,
\* and an entry is None exactly when that model itself failed.
C2_FailureIsolation ==
    \A r \in Reqs : Returned(r) =>
        \A v \in VariantSet :
            /\ exec[r][v].loads = 1
            /\ LoadModel(v, ckpt[v]) = "ok" => exec[r][v].decodes = 1
            /\ Get(results[r], v) = None <=> exec[r][v].caught # "none"
            /\ exec[r][v].caught = "none" => IsPrediction(Get(results[r], v))

\* The checkpoint of regnet is missing, vgg16 is intact: one failure entry
\* and one prediction.
C2_Witness ==
    \E r \in Reqs :
        /\ Returned(r)
        /\ ckpt["regnet"] = Missing
        /\ exec[r]["regnet"].caught = "load"
        /\ results[r]["regnet"] = None
        /\ IsPrediction(results[r]["vgg16"])

\* C3 as stated: when every model fails the call does not return a mapping
\* (it raises a combined error).
C3_AllFailRaises ==
    \A r \in Reqs : AllFailed(r) => ~Returned(r)

\* C3 amended: when every model fails the call raises nothing and returns
\* the mapping with every model's entry None.
C3_AllFailReturnsNone ==
    \A r \in Reqs : AllFailed(r) =>
        /\ Returned(r)
        /\ DOMAIN results[r] = VariantSet
        /\ \A v \in VariantSet : Get(results[r], v) = None

\* A call in which both models failed, for different reasons, has returned.
C3_Witness ==
    \E r \in Reqs :
        /\ AllFailed(r)
        /\ Returned(r)
        /\ exec[r]["regnet"].caught = "forward"
        /\ exec[r]["vgg16"].caught = "decode"

\* C4 as stated: when the input cannot be decoded, no checkpoint load and no
\* forward pass occurs in the call and no mapping is returned.
C4_DecodeFailureAborts ==
    \A r \in Reqs :
        (\E v \in VariantSet : exec[r][v].tensor = Corrupt) =>
            /\ \A w \in VariantSet :
                   exec[r][w].loads = 0 /\ exec[r][w].forwards = 0
            /\ ~Returned(r)

\* C4 amended: an undecodable input fails inside the predict of each model,
\* after that model's checkpoint load: the model's forward pass does not run
\* and its entry is None, and the call goes on to return the mapping.
C4_DecodeFailurePerVariant ==
    \A r \in Reqs : \A v \in VariantSet :
        exec[r][v].tensor = Corrupt =>
            /\ exec[r][v].loads = 1
            /\ exec[r][v].forwards = 0
            /\ exec[r][v].caught = "decode"
            /\ Get(results[r], v) = None
            /\ Returned(r) => DOMAIN results[r] = VariantSet

\* A call returned in which both models were loaded and met undecodable bytes.
C4_Witness ==
    \E r \in Reqs :
        /\ Returned(r)
        /\ \A v \in VariantSet :
               exec[r][v].tensor = Corrupt /\ exec[r][v].loads = 1

\* C5 as stated: the label is "Cancer" iff the probability of class 1 is at
\* least one half, the tie included.
C5_CancerIffAtLeastHalf ==
    pResult # None =>
        (pResult.prediction = "Cancer"
            <=> 2 * pResult.raw_probability.num >= pResult.raw_probability.den)

\* C5 amended: the label is "Cancer" iff the probability of class 1 is more
\* than one half; on a tie (both exactly one half) it is "Non-Cancer".
C5_CancerIffAboveHalf ==
    pResult # None =>
        /\ pResult.prediction = "Cancer"
               <=> 2 * pResult.raw_probability.num > pResult.raw_probability.den
        /\ pOutput[0] = pOutput[1] => pResult.prediction = "Non-Cancer"

\* Equal logits: both probabilities one half, the label "Non-Cancer".
C5_Witness ==
    /\ pResult # None
    /\ pOutput[0] = pOutput[1]
    /\ 2 * pResult.raw_probability.num = pResult.raw_probability.den
    /\ pResult.prediction = "Non-Cancer"

\* C6: logits with l1 > l0 give "Cancer", with l0 > l1 "Non-Cancer", and the
\* confidence is the softmax probability of that class, within [0,1].
C6_DecisionBoundary ==
    pResult # None =>
        LET l0 == pOutput[0]
            l1 == pOutput[1]
            conf == pResult.confidence
        IN  /\ l1 > l0 => /\ pResult.prediction = "Cancer"
                          /\ conf = Softmax(pOutput)[1]
            /\ l0 > l1 => /\ pResult.prediction = "Non-Cancer"
                          /\ conf = Softmax(pOutput)[0]
            /\ 0 <= conf.num /\ conf.num <= conf.den /\ conf.den > 0

\* Logits 0 and 2: "Cancer" with a confidence above one half.
C6_Witness ==
    /\ pResult # None
    /\ pOutput[0] = 0
    /\ pOutput[1] = 2
    /\ pResult.prediction = "Cancer"
    /\ 2 * pResult.confidence.num > pResult.confidence.den

\* The requests that hold a model object of type v (calls in progress).
Holders(v) == {r \in Reqs : model[r][v] # 0}

\* C7 as stated: two requests running at once for the same model type share
\* one checkpoint load and one model object.
C7_LoadOnce ==
    \A v \in VariantSet : \A r1 \in Holders(v) : \A r2 \in Holders(v) \ {r1} :
        loadCount[v] = 1 /\ model[r1][v] = model[r2][v]

\* C7 amended: there is no load-once guard: each of the requests running at
\* once performs its own checkpoint load and uses its own model object.
C7_LoadPerRequest ==
    \A v \in VariantSet :
        /\ loadCount[v] >= Cardinality(Holders(v))
        /\ \A r1 \in Holders(v) : \A r2 \in Holders(v) \ {r1} :
               model[r1][v] # model[r2][v]

\* Two first-time requests both hold a regnet model: two loads.
C7_Witness ==
    /\ Holders("regnet") = {1, 2}
    /\ loadCount["regnet"] = 2
    /\ pc[1] = "predict" /\ pc[2] = "predict"
    /\ cur[1] = 1 /\ cur[2] = 1

\* C8 as stated: once a checkpoint has been loaded, no later step loads it
\* again.
C8_NoReload ==
    [][\A v \in VariantSet :
           loadCount[v] >= 1 => loadCount'[v] = loadCount[v]]_vars

\* C8 amended: every call loads the checkpoint again: whenever a call gets
\* its model of a type, that step performs a checkpoint load, whatever was
\* loaded before; nothing is loaded before the first call.
C8_EveryCallLoads ==
    [][\A r \in Reqs : \A v \in VariantSet :
           /\ (model[r][v] = 0 /\ model'[r][v] # 0)
                  => loadCount'[v] = loadCount[v] + 1
           /\ (\A q \in Reqs : pc[q] = "idle" /\ pc'[q] = "idle")
                  => loadCount'[v] = 0]_vars

\* The first call is over and the second call has loaded regnet again.
C8_Witness ==
    /\ pc[1] = "done"
    /\ model[2]["regnet"] # 0
    /\ loadCount["regnet"] = 2

\* C9 as stated: a call decodes the image once and all its models consume
\* that same input.
C9_DecodedOnce ==
    \A r \in Reqs :
        /\ exec[r]["regnet"].decodes + exec[r]["vgg16"].decodes <= 1
        /\ (exec[r]["regnet"].tensor # "none" /\ exec[r]["vgg16"].tensor # "none")
               => exec[r]["regnet"].tensor = exec[r]["vgg16"].tensor

\* C9 amended: every model's predict opens and decodes the file itself, once,
\* and consumes what the file holds at that moment.
C9_DecodePerVariant ==
    [][\A r \in Reqs :
           (pc[r] = "predict" /\ pc'[r] # "predict") =>
               LET v == Variants[cur[r]]
               IN  /\ exec'[r][v].decodes = exec[r][v].decodes + 1
                   /\ exec'[r][v].decodes = 1
                   /\ exec'[r][v].tensor = imageFile]_vars

\* The file changed between the two predicts of a call: its models
\* consumed different images.
C9_Witness ==
    \E r \in Reqs :
        /\ Returned(r)
        /\ exec[r]["regnet"].tensor = "imgA"
        /\ exec[r]["vgg16"].tensor = "imgB"
        /\ exec[r]["regnet"].decodes = 1 /\ exec[r]["vgg16"].decodes = 1

\* C10: whenever the call ends, the view gets the complete mapping (the call
\* never raises),
\* and it saves a DetectionResult only for a model whose entry is a
\* prediction, with that prediction's label and confidence.
C10_NoFabricatedResult ==
    [][/\ \A r \in Reqs :
              (Returned(r) /\ pc'[r] = "done") =>
                  /\ DOMAIN results[r] = VariantSet
                  /\ \A row \in rows' \ rows :
                         /\ row.req = r
                         /\ IsPrediction(Get(results[r], row.model_type))
                         /\ row.prediction = results[r][row.model_type].prediction
                         /\ row.confidence = results[r][row.model_type].confidence
       /\ rows' # rows => \E r \in Reqs : Returned(r) /\ pc'[r] = "done"
       /\ \A r \in Reqs :
              pc'[r] \in {"idle", "load", "predict", "hung", "returned", "done"}
      ]_vars

\* A request is over that saved the prediction of vgg16 and nothing of regnet.
C10_Witness ==
    \E r \in Reqs :
        /\ pc[r] = "done"
        /\ {row.model_type : row \in {x \in rows : x.req = r}} = {"vgg16"}
        /\ ckpt["regnet"] = Missing

\* The failures recorded so far: request, model type, what was caught.
Failures ==
    {f \in Reqs \X VariantSet :
        f[2] \in DOMAIN results[f[1]] /\ exec[f[1]][f[2]].caught # "none"}

\* C11 as stated: a failure entry carries the kind of its error, so that
\* failures of different kinds have different entries.
C11_FailuresTagged ==
    \A f \in Failures : \A g \in Failures :
        exec[f[1]][f[2]].caught # exec[g[1]][g[2]].caught
            => results[f[1]][f[2]] # results[g[1]][g[2]]

\* C11 amended: a failure entry is None whatever was caught: it carries no
\* kind and no message, and the entries of failures of different kinds are
\* the same.
C11_FailuresUntagged ==
    \A f \in Failures :
        /\ results[f[1]][f[2]] = None
        /\ \A g \in Failures : results[f[1]][f[2]] = results[g[1]][g[2]]

\* A load failure and a decode failure in one call: both entries None.
C11_Witness ==
    \E r \in Reqs :
        /\ Returned(r)
        /\ exec[r]["regnet"].caught = "load"
        /\ exec[r]["vgg16"].caught = "decode"
        /\ results[r]["regnet"] = results[r]["vgg16"]

\* The object has been through its constructor with a model type that
\* load_model has a branch for.
Constructed == dPc # "new" /\ dType \in VariantSet

\* The three cases of C12 for the checkpoint file ck of model type v: the file
\* is absent; it holds neither a parameter mapping nor a dict with the
\* mapping under 'model_state_dict'; it holds, raw or wrapped, a mapping
\* whose shapes are another architecture's.
Absent(ck) == ck = Missing

NeitherShape(ck) == ck \in {NotDict, Raw(NotParams), Wrapped(NotParams)}

ShapeMismatch(v, ck) ==
    \E p \in Params : p.arch # v /\ ck \in {Raw(p), Wrapped(p)}

\* C12: in each of the three cases the constructor raises a load error (not
\* the error of an unknown model type), and there is no model to use: no
\* mode, no weights, no forward pass, no result.
C12_LoadFailures ==
    Constructed =>
        LET ck == CkptAt(dType)
        IN  Absent(ck) \/ NeitherShape(ck) \/ ShapeMismatch(dType, ck) =>
                /\ dPc = "raised"
                /\ dErr = IF Absent(ck) THEN "FileNotFoundError" ELSE "RuntimeError"
                /\ dMode = "none" /\ dWeights = "none"
                /\ dTrace.fwdMode = "none" /\ dRet = None

\* The regnet constructor raised on a wrapped checkpoint of vgg16 shapes.
C12_Witness ==
    /\ dType = "regnet" /\ dPc = "raised" /\ dErr = "RuntimeError"
    /\ ckpt["regnet"] = Wrapped([arch |-> "vgg16", w |-> "W1"])

\* C13: a parameter mapping p that fits the architecture loads, with the
\* weights of p, whether the file holds p itself or a dict with p under
\* 'model_state_dict'; and the branch is chosen by the presence of the key
\* alone, the same way for either model type (file).
C13_ShapeTolerance ==
    /\ Constructed =>
           \A p \in Params :
               p.arch = dType /\ CkptAt(dType) \in {Raw(p), Wrapped(p)} =>
                   dPc # "raised" /\ dWeights = p.w
    /\ \A ck \in CkptStates : \A v \in VariantSet :
           SelectStateDict(v, ck) = IF ck.hasKey THEN ck.inner ELSE ck.top

\* vgg16 constructed from a wrapped checkpoint, with the wrapped weights.
C13_Witness ==
    /\ dType = "vgg16" /\ dPc = "ready" /\ dWeights = "W2"
    /\ ckpt["vgg16"] = Wrapped([arch |-> "vgg16", w |-> "W2"])

\* C14: the constructor raises ValueError for an unknown model type, and for
\* nothing else; it reads no checkpoint, leaves no model (no mode, no
\* weights, nothing to predict with), and the error is an exception at the
\* caller, not an entry of a results mapping.
C14_UnknownTypeRaises ==
    /\ dType = "unknown" =>
           /\ dPc = "raised" /\ dErr = "ValueError"
           /\ dTrace.reads = 0
           /\ dMode = "none" /\ dWeights = "none" /\ dRet = None
           /\ \A r \in Reqs : results[r] = EmptyDict
    /\ dPc = "raised" /\ dErr = "ValueError" => dType = "unknown"

\* An unknown model type was refused while both checkpoint files were there.
C14_Witness ==
    /\ dType = "unknown" /\ dPc = "raised"
    /\ \A v \in VariantSet : ckpt[v] = Intact(v)

\* The step of the constructor that succeeds, and the step of predict.
LoadStep == dPc = "new" /\ dPc' = "ready"

PredictStep == dPc = "ready" /\ dPc' \in {"done", "failed"}

\* C15 as stated: every forward pass runs in evaluation mode.
C15_ForwardAlwaysEval == dTrace.fwdMode \in {"none", "eval"}

\* C15 amended: load_model leaves the model in evaluation mode, and predict
\* does not set the mode: its forward pass runs in the mode the model is in
\* when predict is called, which predict leaves as it is; in training mode
\* the forward pass raises.
C15_ForwardInCurrentMode ==
    [][/\ LoadStep => dMode' = "eval"
       /\ PredictStep =>
              /\ dTrace'.fwdMode \in {"none", dMode}
              /\ dMode' = dMode
              /\ dTrace'.fwdMode = "train" => dErr' = "ValueError"]_vars

\* A predict on a model switched to training mode ran its forward pass in
\* training mode.
C15_Witness ==
    /\ dPc = "failed" /\ dErr = "ValueError"
    /\ dTrace.entryMode = "train" /\ dTrace.fwdMode = "train"

\* A step of request r in predict_with_both_models.
CallStep(r) == Construct(r) \/ Predict(r)

\* C16 as stated: a forward pass that never completes does not block the
\* call: a call in progress can always take its next step.
C16_CallNeverBlocked ==
    \A r \in Reqs : pc[r] \in {"load", "predict", "hung"} => ENABLED CallStep(r)

\* C16 amended: there is no timeout budget: no failure is ever recorded as a
\* timeout, and a forward pass that never completes blocks its call: the
\* model gets no entry, the models after it are never started, the call
\* takes no further step and does not return.
C16_HangBlocksCall ==
    \A r \in Reqs :
        /\ \A v \in VariantSet : exec[r][v].caught # "timeout"
        /\ pc[r] = "hung" =>
               /\ Variants[cur[r]] \notin DOMAIN results[r]
               /\ \A j \in (cur[r] + 1)..Len(Variants) :
                      exec[r][Variants[j]].loads = 0
               /\ ~ENABLED (CallStep(r) \/ SaveResults(r))

\* The forward pass of regnet never completes: vgg16 is never started.
C16_Witness ==
    \E r \in Reqs :
        /\ pc[r] = "hung"
        /\ cur[r] = 1
        /\ exec[r]["regnet"].forwards = 1
        /\ exec[r]["vgg16"].loads = 0

\* C17: within one call every model has at most one checkpoint load attempt,
\* one decode and one forward pass attempt, failed or not.
C17_NoRetry ==
    \A r \in Reqs : \A v \in VariantSet :
        /\ exec[r][v].loads <= 1
        /\ exec[r][v].decodes <= 1
        /\ exec[r][v].forwards <= 1

\* A call returned after a failed load and a failed forward pass, each
\* attempted once.
C17_Witness ==
    \E r \in Reqs :
        /\ Returned(r)
        /\ exec[r]["regnet"].caught = "load" /\ exec[r]["regnet"].loads = 1
        /\ exec[r]["vgg16"].caught = "forward" /\ exec[r]["vgg16"].loads = 1
        /\ exec[r]["vgg16"].forwards = 1

C19_ForwardOnly ==
    dPc = "done" => dRet.processing_time = dTrace.forward

\* C19 amended: the processing time runs from the entry of predict to the
\* end of the classification: it is the time of opening and transforming the
\* image plus the time of the forward pass, and holds nothing of the load.
C19_DecodeAndForward ==
    dPc = "done" =>
        /\ dRet.processing_time = dTrace.decode + dTrace.forward
        /\ dClock = dTrace.load + dRet.processing_time

\* A predict returned after a load, a decode and a forward pass that each
\* took time.
C19_Witness ==
    /\ dPc = "done"
    /\ dTrace.load > 0 /\ dTrace.decode > 0 /\ dTrace.forward > 0
    /\ dRet.processing_time > dTrace.forward

C21_EntryPerVariantOnly ==
    info # None => DOMAIN info = VariantSet

\* C21 amended: get_model_info returns three entries: one per model, under
\* the keys 'regnet_y320' and 'vgg16', with the path of the checkpoint file,
\* whether it exists and its size in megabytes (0 when absent), and a
\* 'device' entry; it loads no model and changes nothing else.
C21_EntriesAndDevice ==
    /\ info # None =>
           /\ DOMAIN info = {"regnet_y320", "vgg16", "device"}
           /\ \A v \in VariantSet :
                  /\ info[InfoKey(v)].path = ModelPath(v)
                  /\ info[InfoKey(v)].exists = ckpt[v].exists
                  /\ info[InfoKey(v)].size_mb = 0 <=> ~ckpt[v].exists
           /\ info["device"] \in {"cpu", "cuda"}
    /\ dPc = "new" =>
           /\ dTrace = NoTrace /\ dMode = "none" /\ dWeights = "none"
           /\ \A v \in VariantSet : loadCount[v] = 0

\* get_model_info returned while one checkpoint was there and the other was
\* not, and nothing has been loaded.
C21_Witness ==
    /\ info # None /\ dPc = "new"
    /\ ckpt["regnet"].exists /\ ~ckpt["vgg16"].exists

\* C22: the image tensor is a function of the bytes of the image alone: it
\* is the image in the file taken through the one pipeline (RGB, resize to
\* 224x224, scaling, normalisation, in that order), whichever model type
\* consumes it and whatever mode, weights or clock the object has; bytes
\* that are no image give no tensor.
C22_PreprocessDeterministic ==
    dPc \in {"done", "failed"} =>
        dTrace.tensor =
            IF imageFile = Corrupt THEN NoTensor
            ELSE [image |-> imageFile,
                  steps |-> <<"RGB", "Resize224", "ToTensor", "Normalize">>]

\* A vgg16 object in training mode preprocessed imgA.
C22_Witness ==
    /\ dPc = "failed" /\ dType = "vgg16" /\ dTrace.entryMode = "train"
    /\ dTrace.tensor.image = "imgA" /\ Len(dTrace.tensor.steps) = 4

\* C23: in every dict predict returns, 'confidence' is 'raw_probability'
\* when the prediction is "Cancer" and the probability of class 0
\* (1 - raw_probability) when it is "Non-Cancer"; so it is the larger of the
\* two class probabilities and at least one half.
C23_ConfidenceIsTopClass ==
    pResult # None =>
        LET conf == pResult.confidence
            raw == pResult.raw_probability
        IN  /\ pResult.prediction = "Cancer" => conf = raw
            /\ pResult.prediction = "Non-Cancer" =>
                   conf.den = raw.den /\ conf.num = raw.den - raw.num
            /\ conf.num >= raw.num /\ conf.num >= raw.den - raw.num
            /\ 2 * conf.num >= conf.den

\* A Non-Cancer result whose confidence is above one half and is not the
\* raw probability.
C23_Witness ==
    /\ pResult # None
    /\ pResult.prediction = "Non-Cancer"
    /\ 2 * pResult.confidence.num > pResult.confidence.den
    /\ pResult.confidence # pResult.raw_probability

\* The step of the results view that saves the predictions of request r.
SaveStep(r) == pc[r] = "returned" /\ pc'[r] = "done"

\* The model types whose entry in the predictions of request r is a success.
Successes(r) == {v \in VariantSet : IsPrediction(Get(results[r], v))}

\* C24: a run_detection request whose predict_with_both_models returned sets
\* the status to 'processed' (success reported) for every combination of
\* outcomes: with both models failed nothing is created, nothing can raise
\* and the status is 'processed'; 'failed' comes only from an exception
\* inside the try block, here a DetectionResult create that raised.
C24_ProcessedUnlessRaised ==
    [][\A r \in Reqs : SaveStep(r) =>
           /\ status' \in {"processed", "failed"}
           /\ AllFailed(r) => status' = "processed" /\ rows' = rows
           /\ status' = "failed" => Successes(r) # {}
           /\ status' = "processed" =>
                  Cardinality(rows' \ rows) = Cardinality(Successes(r))]_vars

\* A request was saved as 'processed' with no DetectionResult row at all.
C24_Witness ==
    /\ status = "processed" /\ rows = {}
    /\ pc[1] = "done" /\ pc[2] = "idle"

\* C26: the status is only ever 'pending', 'processed' or 'failed' (never
\* 'processing'); the end of upload sets 'processed' whether the storage
\* upload succeeded or not; once the upload has ended only the save of a
\* run_detection request changes the status, to 'processed' or 'failed'.
C26_StatusValues ==
    [][/\ status' \in {"pending", "processed", "failed"}
       /\ up = "created" /\ up' = "done" => status' = "processed"
       /\ up = "done" /\ status' # status =>
              /\ \E r \in Reqs : SaveStep(r)
              /\ status' \in {"processed", "failed"}]_vars

\* After the upload ended a run_detection request set the status 'failed'.
C26_Witness == up = "done" /\ status = "failed"

\* C27: the DetectionResult rows only grow, and only in the save of a
\* run_detection request: the rows it adds are its own, one per successful
\* model when it ends 'processed'; when a create raises, the rows created
\* before it stay and the status is 'failed'.
C27_RowsAppendOnly ==
    [][/\ rows \subseteq rows'
       /\ rows' # rows => \E r \in Reqs : SaveStep(r)
       /\ \A r \in Reqs : SaveStep(r) =>
              LET added == rows' \ rows
              IN  /\ \A row \in added :
                         row.req = r /\ row.model_type \in Successes(r)
                  /\ \A row \in added : \A other \in added :
                         row.model_type = other.model_type => row = other
                  /\ status' = "processed" =>
                         {row.model_type : row \in added} = Successes(r)
                  /\ status' = "failed" =>
                         Cardinality(added) < Cardinality(Successes(r))]_vars

\* The second request added its two rows to the two of the first: four rows
\* after two requests.
C27_Witness ==
    /\ pc[1] = "done" /\ pc[2] = "done"
    /\ Cardinality({row \in rows : row.req = 1}) = 2
    /\ Cardinality({row \in rows : row.req = 2}) = 2

\* Every DetectionResult belongs to the owner of its image, and every Report
\* to the owner of its detection result.
OwnershipOK ==
    /\ \A row \in oResults : oImages[row.image] = row.user
    /\ \A rep \in oReports :
           \E row \in oResults :
               row.id = rep.detection_result /\ row.user = rep.user

\* C25: ownership is kept by every request; a request is answered with 404
\* exactly when the object it names is not the user's (another user's, or
\* none), and a request answered with 404 writes no row.
C25_Ownership ==
    [][/\ OwnershipOK'
       /\ resp'.code # "none" => (resp'.code = "404" <=> ~resp'.owned)
       /\ resp'.code = "404" =>
              UNCHANGED <<oImages, oResults, oReports>>]_vars

\* A request that named another user's object was answered with 404, while
\* there are detection results and reports.
C25_Witness ==
    /\ resp.code = "404" /\ resp.exists /\ ~resp.owned
    /\ oResults # {} /\ oReports # {}

\* The Report rows of detection result d and user u.
ReportsOf(d, u) ==
    {rep \in oReports : rep.detection_result = d /\ rep.user = u}

\* C28: under every interleaving of generate requests there is at most one
\* Report per detection result and user, and no generate request fails
\* because several rows match.
C28_AtMostOneReport ==
    /\ \A d \in ResultIds : \A u \in Users : Cardinality(ReportsOf(d, u)) <= 1
    /\ resp.code # "MultipleObjectsReturned"

====
